---- MODULE Spec2Model ----
(***************************************************************************)
(* CliMT Component life cycle (lib/climt/component.py) and its IO          *)
(* collaborator (lib/climt/inout.py): the step loop, the gated compute,    *)
(* the increment map, the calendar and the output trigger.                *)
(*                                                                         *)
(* Times (dt, ElapsedTime, update_frequency, OutputFreq, RunLength as a    *)
(* duration) are whole numbers of one time unit; a Python quotient a/b of  *)
(* two such times is the exact rational a/b, and int(a/b) is TruncDiv.     *)
(* Field values (numpy arrays in the program) are integers; what the model *)
(* keeps of an array is its value and its identity (see alias).            *)
(***************************************************************************)
EXTENDS Integers, Sequences, FiniteSets, TLC

\* ---------------------------------------------------------------- bounds
MaxDt     == 3      \* dt ranges over 1..MaxDt
MaxFreq   == 4      \* UpdateFreq and OutputFreq range over 1..MaxFreq
MaxT0     == 1      \* ElapsedTime at construction ranges over 0..MaxT0
MaxIter   == 2      \* step iterations over the whole run
MaxInc    == 1      \* a kernel increment ranges over 1..MaxInc
MaxExt    == 1      \* an external increment ranges over 1..MaxExt
MaxDpy    == 3      \* daysperyear ranges over 2..MaxDpy
MaxCalls  == 2      \* calls of step, compute and write over the whole run
MaxRun    == 2      \* an integer RunLength ranges over -1..MaxRun
MaxDim    == 2      \* nlat and nlon range over 1..MaxDim

\* ------------------------------------------------- declared field metadata
\* Prognostic is a list in the program (its order is the order of line 109).
Prognostic == <<"T", "q">>
Diagnostic == {"D"}
PrognosticSet == {Prognostic[n] : n \in 1..Len(Prognostic)}
StateFields == PrognosticSet \cup Diagnostic
\* key+'inc' of line 110
IncKey(key) == key \o "inc"
\* The names the extension is declared to return (FromExtension).
FromExtension == {IncKey(p) : p \in PrognosticSet} \cup Diagnostic

VARIABLES
  \* parameters / configuration
  dt,               \* parameters['dt']
  lod,              \* parameters['lod']
  daysperyear,      \* parameters['daysperyear']
  calday,           \* parameters['calday']
  update_frequency, \* Component.update_frequency
  Fixed,            \* Component.Fixed
  SteppingScheme,   \* Component.SteppingScheme
  parameters,       \* the other entries of parameters.value
  grid,             \* grid.value
  Shape3D,          \* grid.Shape3D: <<nlev, nlat, nlon>>
  monitor,          \* monitor.Monitoring and monitor.MonitorFreq
  \* State
  Now, Old, ElapsedTime,
  \* the 2D fields of State.Now as arrays (shape and elements)
  Now2D,
  \* Component.Inc, and the keys whose array is the caller's own array
  Inc, alias,
  \* the diagnostics compute set as attributes of the Component (line 119)
  attrs,
  \* the keyword arguments of the constructor, as __init__ holds them
  kwargs,
  \* what the last __getitem__ returned
  ret,
  \* IO
  OutputFreq,        \* io.OutputFreq as read by step
  doing_output,      \* io.doing_output
  appending,         \* io.appending
  restart,           \* what the restart file holds, if it can be read
  output_fields,     \* io.output_fields: "none" (None) or "given"
  output_time_index, \* io.output_time_index (inout.py line 108)
  OutputTimeIndex,   \* io.OutputTimeIndex (inout.py line 62)
  output_filename,   \* io.output_filename: "none" (None) or a file name
  all_fields,        \* io.all_fields: "unset" until line 96 assigns it, as is
                     \* output_time_index until line 108
  File,              \* the time variable of the output file, one entry per record
  \* position in step
  pc, NSteps, i, ExtInc,
  \* history
  driver,    \* the outcomes the plugged-in extension can produce
  inputs,    \* what the driving procedure passes: RunLengths and increment maps
  exc,       \* the exception that ended the last call, "none" if it returned
  kcall,     \* what the last compute did: none, skipped, ran, failed
  kin,       \* the Input dictionary of the last kernel call
  kout,      \* the Output dictionary of the last kernel call that returned
  pre,       \* the state at the start of the current step iteration
  call,      \* the arguments and the state at the last step call
  hist       \* counters over the run (iterations, writes, boundaries, ...)

vars == <<dt, lod, daysperyear, calday, update_frequency, Fixed, SteppingScheme,
          parameters, grid, Shape3D, monitor, Now, Old, ElapsedTime, Now2D, Inc,
          alias, attrs, kwargs, ret, OutputFreq, doing_output, appending, restart,
          output_fields, output_time_index, OutputTimeIndex, output_filename,
          all_fields, File, pc, NSteps, i, ExtInc, driver,
          inputs, exc, kcall, kin, kout, pre, call, hist>>

\* the attributes of the IO that only IO.__init__ and open assign
iofile == <<OutputTimeIndex, output_filename, all_fields>>

\* what no operation of a constructed component assigns, but __call__ and open
config == <<dt, lod, daysperyear, update_frequency, Fixed, SteppingScheme,
            parameters, grid, Shape3D, monitor, OutputFreq, doing_output,
            appending, restart, output_fields, driver, inputs, iofile>>

\* what only the constructor and the [] accessor assign
extra == <<Now2D, kwargs, ret>>

\* the variables by owner
paramvars == <<dt, lod, daysperyear, calday, update_frequency, parameters>>
statevars == <<Now, Old, ElapsedTime, Now2D, grid, Shape3D>>
iovars == <<OutputFreq, doing_output, appending, output_fields, output_time_index,
           File, iofile>>
computevars == <<Inc, alias, attrs, kin, kout, kcall>>
stepvars == <<NSteps, i, ExtInc, pre, ret>>
given == <<SteppingScheme, monitor, restart, driver, inputs>>

\* ------------------------------------------------------------ pure helpers
\* Python int(a/b) for b > 0: the quotient truncated toward zero.
TruncDiv(a, b) == IF a >= 0 THEN a \div b ELSE -((-a) \div b)

\* floor(a/b) for b > 0
FloorDiv(a, b) == a \div b

\* The boundary test of lines 86, 162: int(time/freq) != int((time-dt)/freq)
Crossed(time, step, freq) == TruncDiv(time, freq) # TruncDiv(time - step, freq)

\* dict without a key (dict.pop)
Pop(d, key) == [k \in DOMAIN d \ {key} |-> d[k]]
\* dict with a key set (d[key] = v)
Put(d, key, v) == [k \in DOMAIN d \cup {key} |-> IF k = key THEN v ELSE d[k]]
\* dict.update / State.update
Update(d, e) == [k \in DOMAIN d \cup DOMAIN e |-> IF k \in DOMAIN e THEN e[k] ELSE d[k]]

\* ------------------------------------------------------------- the kernel
\* What self.driver(*args) can do (lines 104-106): raise, or return values
\* that zip to an Output dictionary over some of the declared names. The
\* increments of distinct fields are distinct numbers (T: v, q: -v).
KernelValue(name, v) ==
  IF name = IncKey("T") THEN v ELSE IF name = IncKey("q") THEN 0 - v ELSE 10 + v

KernelOutput(v, missing) ==
  [name \in FromExtension \ missing |-> KernelValue(name, v)]

GoodOutcomes ==
  {[raised |-> FALSE, out |-> KernelOutput(v, {})] : v \in 1..MaxInc}

OneOutcome == {[raised |-> FALSE, out |-> KernelOutput(1, {})]}

AllOutcomes ==
  GoodOutcomes
    \cup {[raised |-> FALSE, out |-> KernelOutput(1, {n})] : n \in FromExtension}
    \cup {[raised |-> TRUE, out |-> KernelOutput(1, {})]}

\* ------------------------------------------------------- Component.compute
\* (variant: the boundary test with floor in place of int)
GateFloor(ForcedCompute) ==
  ForcedCompute \/ FloorDiv(ElapsedTime, update_frequency)
                     # FloorDiv(ElapsedTime - dt, update_frequency)

\* (variant: the test of line 86 left out, the kernel run at every call)
GateAlways(ForcedCompute) == TRUE

\* (variant: ForcedCompute not looked at, every compute gated)
GateUnforced(ForcedCompute) == Crossed(ElapsedTime, dt, update_frequency)

\* lines 83-86: the kernel runs when forced or when a boundary was crossed
Gate(ForcedCompute) ==
  ForcedCompute \/ Crossed(ElapsedTime, dt, update_frequency)

\* A dictionary's values, each with the dictionary it was taken from
Tag(src, d) == [k \in DOMAIN d |-> [from |-> src, value |-> d[k]]]

\* parameters.value: the calendar and timestep entries and the other ones
ParametersValue ==
  Update(parameters, [k \in {"dt", "lod", "calday", "daysperyear"} |->
                        CASE k = "dt" -> dt
                          [] k = "lod" -> lod
                          [] k = "calday" -> calday
                          [] k = "daysperyear" -> daysperyear])

\* lines 89-91: the union of State.Now, Grid and Params, a later dictionary
\* replacing the entries of an earlier one, and the update frequency
Baseline(now) ==
  Put(Update(Update(Tag("Now", now), Tag("Grid", grid)),
             Tag("Parameters", ParametersValue)),
      "UpdateFreq", [from |-> "Component", value |-> update_frequency])

\* key+'old' of line 98
OldKey(key) == key \o "old"

\* line 98: the entries key+'old' of a level, for every Prognostic key
OldEntries(src, level) ==
  [k \in {OldKey(p) : p \in PrognosticSet} |->
     [from |-> src, value |-> level[CHOOSE p \in PrognosticSet : OldKey(p) = k]]]

\* (variant: line 94 without effect, the current level left in place)
InputNoOld(now, old) ==
  IF SteppingScheme = "semi-implicit"
  THEN Update(Baseline(now), OldEntries("Old", old))
  ELSE Baseline(now)

\* (variant: line 98 handing the current level under key+'old')
InputOldIsNow(now, old) ==
  IF SteppingScheme = "implicit" THEN Update(Baseline(now), Tag("Old", old))
  ELSE IF SteppingScheme = "semi-implicit"
  THEN Update(Baseline(now), OldEntries("Now", now))
  ELSE Baseline(now)

\* (variant: line 94 applied under every scheme)
InputAlwaysOld(now, old) == Update(Baseline(now), Tag("Old", old))

\* lines 89-98: the Input dictionary, per stepping scheme
Input(now, old) ==
  IF SteppingScheme = "implicit" THEN Update(Baseline(now), Tag("Old", old))
  ELSE IF SteppingScheme = "semi-implicit"
  THEN Update(Baseline(now), OldEntries("Old", old))
  ELSE Baseline(now)

\* self.ToExtension: the names the extension is declared to take, in order
ToExtension ==
  <<"T", "q", "D", "dt", "UpdateFreq">>
    \o (IF SteppingScheme = "semi-implicit" THEN <<OldKey("T"), OldKey("q")>> ELSE <<>>)

\* line 101: args = [ Input[key] for key in self.ToExtension ]
Args(input) == [n \in 1..Len(ToExtension) |-> input[ToExtension[n]]]

\* (variant: line 110 with += on an entry that exists)
RECURSIVE ExtractAdd(_, _, _)
ExtractAdd(inc, out, n) ==
  IF n > Len(Prognostic) THEN [ok |-> TRUE, inc |-> inc, out |-> out, n |-> n]
  ELSE IF IncKey(Prognostic[n]) \notin DOMAIN out
       THEN [ok |-> FALSE, inc |-> inc, out |-> out, n |-> n]
       ELSE ExtractAdd(Put(inc, Prognostic[n],
                           (IF Prognostic[n] \in DOMAIN inc THEN inc[Prognostic[n]] ELSE 0)
                             + out[IncKey(Prognostic[n])]),
                       Pop(out, IncKey(Prognostic[n])), n + 1)

\* (variant: line 110 with Output.pop(key+'inc', None) and the key skipped)
RECURSIVE ExtractSkip(_, _, _)
ExtractSkip(inc, out, n) ==
  IF n > Len(Prognostic) THEN [ok |-> TRUE, inc |-> inc, out |-> out, n |-> n]
  ELSE IF IncKey(Prognostic[n]) \notin DOMAIN out
       THEN ExtractSkip(inc, out, n + 1)
       ELSE ExtractSkip(Put(inc, Prognostic[n], out[IncKey(Prognostic[n])]),
                        Pop(out, IncKey(Prognostic[n])), n + 1)

\* lines 109-110: for key in self.Prognostic: self.Inc[key] = Output.pop(key+'inc')
\* A missing key raises KeyError and leaves the assignments made so far.
RECURSIVE Extract(_, _, _)
Extract(inc, out, n) ==
  IF n > Len(Prognostic) THEN [ok |-> TRUE, inc |-> inc, out |-> out, n |-> n]
  ELSE IF IncKey(Prognostic[n]) \notin DOMAIN out
       THEN [ok |-> FALSE, inc |-> inc, out |-> out, n |-> n]
       ELSE Extract(Put(inc, Prognostic[n], out[IncKey(Prognostic[n])]),
                    Pop(out, IncKey(Prognostic[n])), n + 1)

\* lines 113-115: the Fixed keys are popped from Inc and from Output
RemoveFixed(d) == [k \in DOMAIN d \ Fixed |-> d[k]]

\* The keys line 110 assigned before the loop ended or raised
Assigned(ex) == {Prognostic[n] : n \in 1..(ex.n - 1)}

\* The whole of compute(ForcedCompute) with kernel outcome oc
Compute(ForcedCompute, oc) ==
  IF ~Gate(ForcedCompute)
  THEN /\ kcall' = "skipped"
       /\ exc' = "none"
       /\ UNCHANGED <<Inc, alias, Now, attrs, kin, kout>>
  ELSE IF oc.raised
  THEN /\ kcall' = "failed"
       /\ exc' = "kernel"
       /\ kin' = Input(Now, Old)
       /\ UNCHANGED <<Inc, alias, Now, attrs, kout>>
  ELSE LET ex == Extract(Inc, oc.out, 1) IN
       /\ kin' = Input(Now, Old)
       /\ kout' = oc.out
       /\ IF ex.ok
          THEN /\ kcall' = "ran"
               /\ exc' = "none"
               /\ Inc' = RemoveFixed(ex.inc)
               /\ alias' = (alias \ Assigned(ex)) \ Fixed
               /\ Now' = Update(Now, RemoveFixed(ex.out))
               /\ attrs' = Update(attrs, RemoveFixed(ex.out))
          ELSE /\ kcall' = "failed"
               /\ exc' = "KeyError"
               /\ Inc' = ex.inc
               /\ alias' = alias \ Assigned(ex)
               /\ UNCHANGED <<Now, attrs>>

\* History of Inc: per key, the value the kernel gave it (0 when the merge
\* created the entry) and the external increments merged into it since.
AccAfterCompute(acc, inc2, oc, ran) ==
  LET ex == Extract(Inc, oc.out, 1) IN
  [k \in DOMAIN inc2 |->
     IF ran /\ k \in Assigned(ex) /\ IncKey(k) \in DOMAIN oc.out
     THEN [base |-> oc.out[IncKey(k)], ext |-> <<>>]
     ELSE IF k \in DOMAIN acc THEN acc[k] ELSE [base |-> 0, ext |-> <<>>]]

\* ---------------------------------------------------------- Component.step
\* (variant: a duration taken as a count)
StepCountNoDiv(kind, RunLength) == RunLength

\* lines 132-137: NSteps from an integer count or a real duration
StepCount(kind, RunLength) ==
  IF kind = "int" THEN RunLength ELSE TruncDiv(RunLength, dt)

\* range(NSteps) has no element when NSteps <= 0
Iterations(n) == IF n > 0 THEN n ELSE 0

\* (variant: line 145 alone, the external increment replacing the entry)
MergeOverwrite(inc, ext) ==
  [k \in DOMAIN inc \cup DOMAIN ext |-> IF k \in DOMAIN ext THEN ext[k] ELSE inc[k]]

\* lines 141-145: Inc[key] += ext[key] when present, else Inc[key] = ext[key]
MergeInc(inc, ext) ==
  [k \in DOMAIN inc \cup DOMAIN ext |->
     IF k \in DOMAIN ext
     THEN IF k \in DOMAIN inc THEN inc[k] + ext[k] ELSE ext[k]
     ELSE inc[k]]

\* line 143 on an array is in place: where Inc[key] is the caller's own array
\* (line 145 stored it), the caller's entry takes the sum too
MergeInPlace(inc, ext, al) ==
  [k \in DOMAIN ext |->
     IF k \in al /\ k \in DOMAIN inc THEN inc[k] + ext[k] ELSE ext[k]]

\* State.advance(component), line 148
AdvanceNow(now, inc) ==
  [k \in DOMAIN now |->
     IF k \in PrognosticSet \ Fixed /\ k \in DOMAIN inc
     THEN now[k] + inc[k] ELSE now[k]]

AdvanceOld(old, now) ==
  [k \in DOMAIN old |-> IF k \in PrognosticSet \ Fixed THEN now[k] ELSE old[k]]

AdvanceTime(t) == t + dt

\* (variant: the wrap of line 155 with >=)
AdvanceCalendarGe(c) ==
  LET c1 == c + dt \div lod IN
  IF c1 >= daysperyear THEN c1 - daysperyear ELSE c1

\* lines 154-156 (dt is a multiple of lod here, so dt/lod is exact)
AdvanceCalendar(c) ==
  LET c1 == c + dt \div lod IN
  IF c1 > daysperyear THEN c1 - daysperyear ELSE c1

\* ---------------------------------------------------------------- IO
\* seconds in a day: the 86400. of inout.py lines 127, 241, 253
SecondsPerDay == 86400

\* ElapsedTime / 86400. (lines 241, 253): a time in days, kept as the exact
\* quotient <<seconds, seconds per day>>
Days(t) == <<t, SecondsPerDay>>

\* days * 86400. (line 127) for a whole number of seconds
Seconds(d) == (d[1] * SecondsPerDay) \div d[2]

\* the value of a record of the time variable that was never written
Unwritten == <<0 - 1, 1>>

\* File.variables['time'][index] = t: the record dimension grows to index+1
WriteAt(f, index, t) ==
  [n \in 1..(IF index + 1 > Len(f) THEN index + 1 ELSE Len(f)) |->
     IF n = index + 1 THEN Days(t) ELSE IF n <= Len(f) THEN f[n] ELSE Unwritten]

\* lines 224-259. self.OutputFieldNames (line 232) is assigned nowhere: the
\* read raises AttributeError unless ElapsedTime == 0. short-circuits the or.
\* With output_fields None the loop of line 243 raises TypeError, after
\* line 241 has written the time. Where IO.__init__ returned at line 86,
\* output_time_index was never assigned and line 241 raises AttributeError.
WriteOutput ==
  IF ~doing_output
  THEN /\ exc' = "none"
       /\ UNCHANGED <<File, output_time_index>>
  ELSE IF ElapsedTime # 0 \/ all_fields = "unset"
  THEN /\ exc' = "AttributeError"
       /\ UNCHANGED <<File, output_time_index>>
  ELSE /\ File' = WriteAt(File, output_time_index, ElapsedTime)
       /\ IF output_fields = "none"
          THEN /\ exc' = "TypeError"
               /\ UNCHANGED output_time_index
          ELSE /\ exc' = "none"
               /\ output_time_index' = output_time_index + 1

\* ------------------------------------------------------------------ actions
\* (variant: the calendar brought up to date before compute)
PhaseAfterCalendarFirst(p) ==
  CASE p = "merge" -> "advance"
    [] p = "advance" -> "calendar"
    [] p = "calendar" -> "compute"
    [] p = "compute" -> "output"
    [] p = "output" -> "monitor"
    [] p = "monitor" -> "merge"

\* (variant: compute before the state is advanced)
PhaseAfterComputeFirst(p) ==
  CASE p = "merge" -> "compute"
    [] p = "compute" -> "advance"
    [] p = "advance" -> "calendar"
    [] p = "calendar" -> "output"
    [] p = "output" -> "monitor"
    [] p = "monitor" -> "merge"

\* The order of the loop body, lines 140-167: merge the external increments,
\* advance, compute, calendar, output trigger, monitor trigger
PhaseAfter(p) ==
  CASE p = "merge" -> "advance"
    [] p = "advance" -> "compute"
    [] p = "compute" -> "calendar"
    [] p = "calendar" -> "output"
    [] p = "output" -> "monitor"
    [] p = "monitor" -> "merge"

\* one phase of the current iteration: the elapsed time it read, and whether
\* it acted (the kernel invoked, write called, the monitor refreshed)
Phase(name, fired) == [name |-> name, time |-> ElapsedTime, fired |-> fired]

EmptyMap == [k \in {} |-> 0]

Callable == pc \in {"idle", "returned", "raised", "called"}

SnapshotOf(now, old, t, inc, c, index, f, at) ==
  [Now |-> now, Old |-> old, ElapsedTime |-> t, Inc |-> inc, calday |-> c,
   output_time_index |-> index, File |-> f, attrs |-> at]

Snapshot ==
  SnapshotOf(Now, Old, ElapsedTime, Inc, calday, output_time_index, File, attrs)

\* External increment maps a caller passes: none, or one field's increment
ExtKeys == StateFields
ExtIncs ==
  {EmptyMap} \cup {[k \in {key} |-> d] : key \in ExtKeys, d \in 1..MaxExt}

\* RunLength arguments: an integer count, or a real duration
IntRuns == {<<"int", n>> : n \in (0 - 1)..MaxRun}
FloatRuns == {<<"float", r>> : r \in 0..(MaxRun * MaxDt + 1)}

\* step(RunLength, Inc) is called: lines 124-139
StepCall(kind, RunLength, ext) ==
  /\ Callable
  /\ hist.calls < MaxCalls
  /\ hist.iters + Iterations(StepCount(kind, RunLength)) <= MaxIter
  /\ NSteps' = StepCount(kind, RunLength)
  /\ i' = 0
  /\ ExtInc' = ext
  /\ alias' = {}
  /\ call' = [kind |-> kind, RunLength |-> RunLength, forced |-> FALSE,
              snap |-> Snapshot, iters0 |-> hist.iters, ext |-> ext]
  /\ pre' = Snapshot
  /\ exc' = "none"
  /\ kcall' = "none"
  /\ pc' = IF Iterations(StepCount(kind, RunLength)) > 0 THEN "merge" ELSE "returned"
  /\ UNCHANGED <<config, extra, kin, attrs, calday, Now, Old, ElapsedTime, Inc, output_time_index,
                 File, kout>>
  /\ hist' = [hist EXCEPT !.calls = @ + 1]

\* lines 141-145
Merge ==
  /\ pc = "merge"
  /\ Inc' = MergeInc(Inc, ExtInc)
  /\ ExtInc' = MergeInPlace(Inc, ExtInc, alias)
  /\ alias' = alias \cup (DOMAIN ExtInc \ DOMAIN Inc)
  /\ hist' = [hist EXCEPT !.phases = <<Phase("merge", TRUE)>>, !.acc =
       [k \in DOMAIN Inc \cup DOMAIN ExtInc |->
          IF k \notin DOMAIN ExtInc THEN hist.acc[k]
          ELSE IF k \in DOMAIN Inc
               THEN [hist.acc[k] EXCEPT !.ext = Append(@, ExtInc[k])]
               ELSE [base |-> 0, ext |-> <<ExtInc[k]>>]]]
  /\ pc' = PhaseAfter("merge")
  /\ UNCHANGED <<config, extra, kin, attrs, calday, Now, Old, ElapsedTime, output_time_index, File,
                 NSteps, i, exc, kcall, kout, pre, call>>

\* line 148
Advance ==
  /\ pc = "advance"
  /\ Now' = AdvanceNow(Now, Inc)
  /\ Old' = AdvanceOld(Old, Now)
  /\ ElapsedTime' = AdvanceTime(ElapsedTime)
  /\ hist' = [hist EXCEPT !.iters = @ + 1,
                          !.phases = Append(@, Phase("advance", TRUE)),
                          !.bounds = @ + FloorDiv(ElapsedTime + dt, OutputFreq)
                                       - FloorDiv(ElapsedTime, OutputFreq)]
  /\ pc' = PhaseAfter("advance")
  /\ UNCHANGED <<config, extra, kin, attrs, calday, Inc, alias, output_time_index, File, NSteps, i,
                 ExtInc, exc, kcall, kout, pre, call>>

\* line 151
ComputeStep ==
  /\ pc = "compute"
  /\ \E oc \in driver :
       /\ Compute(FALSE, oc)
       /\ hist' = [hist EXCEPT !.phases = Append(@, Phase("compute", kcall' # "skipped")),
                               !.kernels = @ + (IF kcall' = "skipped" THEN 0 ELSE 1),
                               !.acc = AccAfterCompute(@, Inc', oc, kcall' = "ran"
                                                       \/ exc' = "KeyError")]
  /\ pc' = IF exc' # "none" THEN "raised" ELSE PhaseAfter("compute")
  /\ UNCHANGED <<config, extra, calday, Old, ElapsedTime, output_time_index, File,
                 NSteps, i, ExtInc, pre, call>>

\* lines 154-156
Calendar ==
  /\ pc = "calendar"
  /\ calday' = AdvanceCalendar(calday)
  /\ hist' = [hist EXCEPT !.cal = @ + 1, !.phases = Append(@, Phase("calendar", TRUE))]
  /\ pc' = PhaseAfter("calendar")
  /\ UNCHANGED <<config, extra, kin, attrs, Now, Old, ElapsedTime, Inc, alias, output_time_index,
                 File, NSteps, i, ExtInc, exc, kcall, kout, pre, call>>

\* lines 159-162
Output ==
  /\ pc = "output"
  /\ IF Crossed(ElapsedTime, dt, OutputFreq)
     THEN /\ WriteOutput
          /\ hist' = [hist EXCEPT !.phases = Append(@, Phase("output", TRUE)),
                                  !.writes = @ + 1,
                                  !.appended = @ + Len(File') - Len(File)]
     ELSE /\ exc' = "none"
          /\ hist' = [hist EXCEPT !.phases = Append(@, Phase("output", FALSE))]
          /\ UNCHANGED <<File, output_time_index>>
  /\ pc' = IF exc' # "none" THEN "raised" ELSE PhaseAfter("output")
  /\ UNCHANGED <<config, extra, kin, attrs, calday, Now, Old, ElapsedTime, Inc,
                 alias, NSteps, i, ExtInc, kcall, kout, pre, call>>

\* lines 165-167, and the loop head of line 139
Monitor ==
  /\ pc = "monitor"
  /\ LET refresh == monitor.Monitoring
                      /\ Crossed(ElapsedTime, dt, monitor.MonitorFreq)
     IN hist' = [hist EXCEPT !.phases = Append(@, Phase("monitor", refresh)),
                             !.refreshes = @ + (IF refresh THEN 1 ELSE 0)]
  /\ i' = i + 1
  /\ pc' = IF i + 1 < NSteps THEN PhaseAfter("monitor") ELSE "returned"
  /\ pre' = IF i + 1 < NSteps THEN Snapshot ELSE pre
  /\ UNCHANGED <<config, extra, kin, attrs, calday, Now, Old, ElapsedTime, Inc,
                 alias, output_time_index, File, NSteps, ExtInc, exc, kcall, kout,
                 call>>

\* compute(ForcedCompute) called by the user of the component
ComputeCall(ForcedCompute) ==
  /\ Callable
  /\ hist.calls < MaxCalls
  /\ \E oc \in driver :
       /\ Compute(ForcedCompute, oc)
       /\ hist' = [hist EXCEPT !.calls = @ + 1,
                               !.kernels = @ + (IF kcall' = "skipped" THEN 0 ELSE 1),
                               !.acc = AccAfterCompute(@, Inc', oc, kcall' = "ran"
                                                       \/ exc' = "KeyError")]
  /\ call' = [kind |-> "compute", RunLength |-> 0, forced |-> ForcedCompute,
              snap |-> Snapshot, iters0 |-> hist.iters]
  /\ pc' = "called"
  /\ UNCHANGED <<config, extra, calday, Old, ElapsedTime, output_time_index, File,
                 NSteps, i, ExtInc, pre>>

\* write() called by the user of the component: lines 180-184
WriteCall ==
  /\ Callable
  /\ hist.calls < MaxCalls
  /\ WriteOutput
  /\ hist' = [hist EXCEPT !.calls = @ + 1]
  /\ call' = [kind |-> "write", RunLength |-> 0, forced |-> FALSE,
              snap |-> Snapshot, iters0 |-> hist.iters]
  /\ pc' = "called"
  /\ UNCHANGED <<config, extra, kin, attrs, calday, Now, Old, ElapsedTime, Inc, alias, NSteps, i,
                 ExtInc, kcall, kout, pre>>

\* open(OutputFileName): lines 186-198, with IO.createOutputFile (inout.py
\* lines 160-219). io.OutputFileName, io.DoingOutput and io.Appending are read
\* as the attributes IO keeps as output_filename, doing_output and appending;
\* io.OutputTimeIndex is the attribute of inout.py line 62, which writeOutput
\* does not read (it reads output_time_index, lines 241 and 259). Where
\* all_fields was never assigned, line 213 raises AttributeError once the new
\* file has been made.
Open(OutputFileName) ==
  /\ Callable
  /\ hist.calls < MaxCalls
  /\ IF output_filename = OutputFileName
     THEN /\ exc' = "none"
          /\ UNCHANGED <<output_filename, doing_output, appending,
                         OutputTimeIndex, File>>
     ELSE /\ output_filename' = OutputFileName
          /\ doing_output' = TRUE
          /\ appending' = FALSE
          /\ OutputTimeIndex' = 0
          /\ File' = <<>>
          /\ exc' = IF all_fields = "unset" THEN "AttributeError" ELSE "none"
  /\ hist' = [hist EXCEPT !.calls = @ + 1]
  /\ call' = [kind |-> "open", RunLength |-> 0, forced |-> FALSE,
              snap |-> Snapshot, iters0 |-> hist.iters,
              name |-> OutputFileName, was |-> output_filename]
  /\ pc' = "called"
  /\ UNCHANGED <<paramvars, statevars, computevars, stepvars, given, Fixed, kwargs,
                 OutputFreq, output_fields, output_time_index, all_fields>>

\* --------------------------------------------------- the [] accessor
\* An array: its shape and its elements in row-major order. A scalar is the
\* array of shape ().
Array(shape, data) == [shape |-> shape, data |-> data]
Scalar(x) == Array(<<>>, <<x>>)

RECURSIVE Product(_)
Product(shape) == IF shape = <<>> THEN 1 ELSE Head(shape) * Product(Tail(shape))

\* the State fields that KnownFields tags '2D' (line 316)
Fields2D == {"Ts"}

\* self.grid.Shape3D[1:3], line 317
Shape2D == <<Shape3D[2], Shape3D[3]>>

\* numpy reshape(value, shape): the same elements in the same order
Reshape(value, shape) == Array(shape, value.data)

IsNotOne(d) == d # 1

\* utils.squeeze: the dimensions of length 1 removed
Squeeze(a) == Array(SelectSeq(a.shape, IsNotOne), a.data)

\* line 303, for one of Params, Grid and State
Found(key) ==
  key \in DOMAIN ParametersValue \cup DOMAIN grid \cup DOMAIN Now2D \cup DOMAIN Now

\* what Params, Grid and State hold under a key, in the order of line 302;
\* "none" when none of them has the key
Stored(key) ==
  IF key \in DOMAIN ParametersValue THEN Scalar(ParametersValue[key])
  ELSE IF key \in DOMAIN grid THEN Scalar(grid[key])
  ELSE IF key \in DOMAIN Now2D THEN Now2D[key]
  ELSE IF key \in DOMAIN Now THEN Scalar(Now[key])
  ELSE "none"

\* (variant: line 305 returning obj[key] as stored)
GetItemValueStored(key) == Stored(key)

\* lines 302-305: the value __getitem__ returns for a key that is found
GetItemValue(key) == Squeeze(Stored(key))

\* the keys the accessor is used with: a parameter, a Grid entry, a 2D field
\* of State, and a name that is nowhere
AccessKeys == {"calday", "nlev", "Ts", "zz"}

\* the values assigned: an array of up to MaxDim * MaxDim elements to a
\* field, a number to a parameter or a Grid entry
Elements == 0..1
Datas == UNION {[1..n -> Elements] : n \in 1..(MaxDim * MaxDim)}
Shapes(n) ==
  {<<n>>} \cup {<<a, b>> : a \in 1..MaxDim, b \in 1..MaxDim}
Assignable(key) ==
  IF key \in Fields2D
  THEN UNION {{Array(sh, d) : sh \in {x \in Shapes(Len(d)) : Product(x) = Len(d)}} :
                d \in Datas}
  ELSE {Scalar(x) : x \in Elements}

AccessCall(kind, key) ==
  [kind |-> kind, RunLength |-> 0, forced |-> FALSE, snap |-> Snapshot,
   iters0 |-> hist.iters, key |-> key]

\* component[key] = value: lines 309-323
SetItem(key, value) ==
  /\ Callable
  /\ hist.calls < MaxCalls
  /\ call' = AccessCall("setitem", key)
  /\ pc' = "called"
  /\ IF key \in DOMAIN ParametersValue
     THEN /\ IF key = "calday"
             THEN calday' = value.data[1] /\ UNCHANGED parameters
             ELSE parameters' = Put(parameters, key, value.data[1]) /\ UNCHANGED calday
          /\ exc' = "none"
          /\ UNCHANGED <<grid, Now2D>>
     ELSE IF key \in DOMAIN grid
     THEN /\ grid' = Put(grid, key, value.data[1])
          /\ exc' = "none"
          /\ UNCHANGED <<calday, parameters, Now2D>>
     ELSE IF key \in DOMAIN Now2D /\ key \in Fields2D
     THEN /\ IF Len(value.data) = Product(Shape2D)
             THEN /\ Now2D' = Put(Now2D, key, Reshape(value, Shape2D))
                  /\ exc' = "none"
             ELSE /\ exc' = "ValueError"
                  /\ UNCHANGED Now2D
          /\ UNCHANGED <<calday, parameters, grid>>
     ELSE /\ exc' = "IndexError"
          /\ UNCHANGED <<calday, parameters, grid, Now2D>>
  /\ hist' = [hist EXCEPT !.calls = @ + 1,
                          !.set = IF exc' = "none" THEN Put(@, key, value) ELSE @]
  /\ UNCHANGED <<dt, lod, daysperyear, update_frequency, Fixed, SteppingScheme,
                 Shape3D, monitor, OutputFreq, doing_output, appending, restart,
                 output_fields, iofile, driver, inputs, kwargs, ret, kin, attrs, Now, Old,
                 ElapsedTime, Inc, alias, output_time_index, File, NSteps, i,
                 ExtInc, kcall, kout, pre>>

\* component[key]: lines 301-306
GetItem(key) ==
  /\ Callable
  /\ hist.calls < MaxCalls
  /\ call' = AccessCall("getitem", key)
  /\ pc' = "called"
  /\ IF ~Found(key)
     THEN exc' = "IndexError" /\ ret' = "none"
     ELSE exc' = "none" /\ ret' = GetItemValue(key)
  /\ hist' = [hist EXCEPT !.calls = @ + 1]
  /\ UNCHANGED <<config, Now2D, kwargs, kin, attrs, calday, Now, Old, ElapsedTime,
                 Inc, alias, output_time_index, File, NSteps, i, ExtInc, kcall,
                 kout, pre>>

\* ------------------------------------------------------ Component.__init__
\* The constructor runs in phases: IO.__init__, readRestart, Parameters and
\* State, the forced compute, createOutputFile, the initial write. An
\* exception in a phase ends the construction (pc = "aborted"): no Component.
Has(kw, name) == name \in DOMAIN kw

Last(seq) == seq[Len(seq)]

\* a[::-1]
Reverse(seq) == [n \in 1..Len(seq) |-> seq[Len(seq) + 1 - n]]

\* Parameters().value.keys() and self.Required, lines 31-32
ParamNames == {"dt", "lod", "calday", "daysperyear"}
Required == {"T", "q", "Ts"}

\* the fields that KnownFields tags '3D' (inout.py line 147)
Fields3D == {"T", "q"}

\* (variant: the assignment made without the test "Name not in kwargs")
FillAlways(kw, name, v) == Put(kw, name, v)

\* if Name not in kwargs: kwargs[Name] = v (inout.py lines 126-127, 132, 138,
\* 140, 144-146)
Fill(kw, name, v) == IF Has(kw, name) THEN kw ELSE Put(kw, name, v)

\* the loops of inout.py lines 130-135 and 143-150: a name the file lacks is
\* reported and passed over
RECURSIVE FillAll(_, _, _)
FillAll(kw, names, found) ==
  IF names = {} THEN kw
  ELSE LET name == CHOOSE x \in names : TRUE IN
       FillAll(IF Has(found, name) THEN Fill(kw, name, found[name]) ELSE kw,
               names \ {name}, found)

\* File.variables[Name][-1], reversed along the levels for a 3D field
\* (inout.py lines 146-147)
LastRecords(file) ==
  [f \in DOMAIN file.fields |->
     IF f \in Fields3D THEN Reverse(Last(file.fields[f])) ELSE Last(file.fields[f])]

\* inout.py lines 125-150: the kwargs readRestart returns
ReadRestartValue(kw, file) ==
  LET k1 == Fill(kw, "ElapsedTime", Seconds(Last(file.time)))
      k2 == FillAll(k1, ParamNames, file.attributes)
      k3 == Fill(k2, "lev", Reverse(file.lev))
      k4 == Fill(Fill(k3, "lat", file.lat), "lon", file.lon)
  IN FillAll(k4, Required, LastRecords(file))

Built(name) == [hist EXCEPT !.built = Append(@, name)]

\* component.py lines 21-27 and IO.__init__ (inout.py lines 45-108)
InitIO ==
  /\ pc = "new"
  /\ Fixed' = IF Has(kwargs, "Fixed") THEN kwargs["Fixed"] ELSE {}
  /\ kwargs' = IF Has(kwargs, "Fixed") THEN Pop(kwargs, "Fixed") ELSE kwargs
  /\ doing_output' = Has(kwargs, "OutputFile")
  /\ appending' = /\ Has(kwargs, "OutputFile")
                  /\ Has(kwargs, "RestartFile")
                  /\ kwargs["OutputFile"] = kwargs["RestartFile"]
  /\ output_fields' = IF Has(kwargs, "OutputFields") THEN "given" ELSE "none"
  /\ OutputFreq' = IF Has(kwargs, "OutputFreq") THEN kwargs["OutputFreq"]
                   ELSE SecondsPerDay
  /\ output_time_index' = 0
  /\ OutputTimeIndex' = 0
  /\ output_filename' = IF Has(kwargs, "OutputFile") THEN kwargs["OutputFile"]
                        ELSE "none"
  /\ all_fields' = IF Has(kwargs, "OutputFile") THEN "set" ELSE "unset"
  /\ pc' = IF Has(kwargs, "RestartFile") THEN "init-restart" ELSE "init-state"
  /\ hist' = Built("io")
  /\ UNCHANGED <<paramvars, statevars, computevars, stepvars, given, File, exc,
                 call>>

\* component.py lines 30-33 and IO.readRestart (inout.py lines 111-158)
ReadRestart ==
  /\ pc = "init-restart"
  /\ call' = [kind |-> "readRestart", RunLength |-> 0, forced |-> FALSE,
              snap |-> Snapshot, iters0 |-> 0, kwargs |-> kwargs]
  /\ IF ~restart.readable
     THEN /\ exc' = "IOError"
          /\ pc' = "aborted"
          /\ UNCHANGED <<kwargs, output_time_index>>
     ELSE /\ kwargs' = ReadRestartValue(kwargs, restart)
          /\ output_time_index' = IF appending THEN Len(restart.time)
                                  ELSE output_time_index
          /\ exc' = "none"
          /\ pc' = "init-state"
  /\ hist' = Built("restart")
  /\ UNCHANGED <<paramvars, statevars, computevars, stepvars, given, Fixed,
                 OutputFreq, doing_output, appending, output_fields, iofile, File>>

\* a keyword argument, or the default of the collaborator that takes it
Given(kw, name, default) == IF Has(kw, name) THEN kw[name] ELSE default

\* Parameters(**kwargs) and State(self, **kwargs), as lines 36-49 and 174-176
\* use them
NewState(kw) ==
  /\ dt' = Given(kw, "dt", 1)
  /\ lod' = 1
  /\ daysperyear' = Given(kw, "daysperyear", 2)
  /\ calday' = Given(kw, "calday", 0)
  /\ parameters' = EmptyMap
  /\ ElapsedTime' = Given(kw, "ElapsedTime", 0)
  /\ Now' = [f \in StateFields |-> Given(kw, f, 0)]
  /\ Old' = [f \in StateFields |-> Given(kw, f, 0)]
  /\ grid' = [k \in {"nlev"} |-> IF Has(kw, "lev") THEN Len(kw["lev"]) ELSE 1]
  /\ Shape3D' = <<IF Has(kw, "lev") THEN Len(kw["lev"]) ELSE 1, 1, 1>>
  /\ Now2D' = [k \in Fields2D |-> Array(<<1, 1>>, <<Given(kw, k, 0)>>)]

\* component.py lines 36-49
InitParametersAndState ==
  /\ pc = "init-state"
  /\ NewState(kwargs)
  /\ update_frequency' = Given(kwargs, "UpdateFreq", Given(kwargs, "dt", 1))
  /\ kwargs' = IF Has(kwargs, "UpdateFreq") THEN Pop(kwargs, "UpdateFreq") ELSE kwargs
  /\ Inc' = EmptyMap
  /\ pc' = "init-compute"
  /\ hist' = Built("state")
  /\ UNCHANGED <<iovars, stepvars, given, Fixed, alias, attrs, kin, kout, kcall,
                 exc, call>>

\* component.py line 52
InitCompute ==
  /\ pc = "init-compute"
  /\ \E oc \in driver :
       /\ Compute(TRUE, oc)
       /\ hist' = [hist EXCEPT !.built = Append(@, "compute"),
                               !.kernels = @ + (IF kcall' = "skipped" THEN 0 ELSE 1),
                               !.acc = AccAfterCompute(@, Inc', oc, TRUE)]
  /\ pc' = IF exc' # "none" THEN "aborted" ELSE "init-create"
  /\ UNCHANGED <<paramvars, iovars, stepvars, given, Fixed, kwargs, Old,
                 ElapsedTime, Now2D, grid, Shape3D, call>>

\* component.py line 55 and IO.createOutputFile (inout.py lines 160-219)
CreateOutputFile ==
  /\ pc = "init-create"
  /\ File' = IF doing_output /\ ~appending THEN <<>> ELSE File
  /\ pc' = "init-write"
  /\ hist' = Built("create")
  /\ UNCHANGED <<paramvars, statevars, computevars, stepvars, given, Fixed, kwargs,
                 OutputFreq, doing_output, appending, output_fields, iofile,
                 output_time_index, exc, call>>

\* component.py line 58
InitWrite ==
  /\ pc = "init-write"
  /\ IF ~appending
     THEN WriteOutput
     ELSE exc' = "none" /\ UNCHANGED <<File, output_time_index>>
  /\ pc' = IF exc' # "none" THEN "aborted" ELSE "idle"
  /\ hist' = Built("write")
  /\ UNCHANGED <<paramvars, statevars, computevars, stepvars, given, Fixed, kwargs,
                 OutputFreq, doing_output, appending, output_fields, iofile, call>>

\* ------------------------------------------------------ Component.__call__
\* lines 174-176: Parameters, State and Grid made anew from the arguments;
\* update_frequency, Inc and the IO are the ones of the construction
CallInit(kw) ==
  /\ Callable
  /\ hist.calls < MaxCalls
  /\ NewState(kw)
  /\ call' = [kind |-> "call", RunLength |-> 0, forced |-> FALSE,
              snap |-> Snapshot, iters0 |-> hist.iters, kwargs |-> kw]
  /\ exc' = "none"
  /\ pc' = "call-compute"
  /\ hist' = [hist EXCEPT !.calls = @ + 1]
  /\ UNCHANGED <<update_frequency, iovars, computevars, stepvars, given, Fixed,
                 kwargs>>

\* line 178
CallCompute ==
  /\ pc = "call-compute"
  /\ \E oc \in driver :
       /\ Compute(FALSE, oc)
       /\ hist' = [hist EXCEPT !.kernels = @ + (IF kcall' = "skipped" THEN 0 ELSE 1),
                               !.acc = AccAfterCompute(@, Inc', oc, kcall' = "ran"
                                                       \/ exc' = "KeyError")]
  /\ pc' = "called"
  /\ UNCHANGED <<paramvars, iovars, stepvars, given, Fixed, kwargs, Old,
                 ElapsedTime, Now2D, grid, Shape3D, call>>

\* ------------------------------------------------- the state after __init__
\* lines 18-58: Inc = {} and compute(ForcedCompute=True) have run (a kernel
\* outcome that raises ends the construction: no component), and the initial
\* record is written unless the output is appended to the restart file.
InitConfig ==
  /\ dt \in 1..MaxDt
  /\ lod \in {l \in 1..MaxDt : dt % l = 0}
  /\ daysperyear \in 2..MaxDpy
  /\ calday \in 0..daysperyear
  /\ update_frequency \in 1..MaxFreq
  /\ Fixed \in {{}, {"q"}}
  /\ SteppingScheme \in {"explicit", "implicit", "semi-implicit"}
  /\ parameters \in {EmptyMap, [k \in {"D"} |-> 8]}
  /\ grid \in {[k \in {"nlev"} |-> 1], [k \in {"nlev", "D"} |-> IF k = "D" THEN 7 ELSE 1]}
  /\ Shape3D \in {1} \X (1..MaxDim) \X (1..MaxDim)
  /\ monitor \in [Monitoring : BOOLEAN, MonitorFreq : 1..MaxFreq]
  /\ OutputFreq \in 1..MaxFreq
  /\ driver \subseteq AllOutcomes
  /\ inputs.runs \subseteq IntRuns \cup FloatRuns
  /\ inputs.exts \subseteq ExtIncs

InitOutput ==
  /\ ElapsedTime \in 0..MaxT0
  /\ restart = [readable |-> FALSE]
  /\ OutputTimeIndex = 0
  /\ \/ /\ doing_output = FALSE
        /\ appending = FALSE
        /\ output_filename = "none"
        /\ all_fields = "unset"
        /\ output_fields = "none"
        /\ output_time_index = 0
        /\ File = <<>>
     \/ /\ doing_output = TRUE
        /\ appending = FALSE
        /\ output_filename = "o.nc"
        /\ all_fields = "set"
        /\ ElapsedTime = 0
        /\ output_fields = "given"
        /\ output_time_index = 1
        /\ File = <<Days(0)>>
     \/ /\ doing_output = TRUE
        /\ appending = TRUE
        /\ output_filename = "r.nc"
        /\ all_fields = "set"
        /\ output_fields \in {"none", "given"}
        /\ output_time_index = 1
        /\ File = <<Days(ElapsedTime)>>

InitState ==
  /\ Old = [k \in StateFields |-> 0]
  /\ \E oc \in driver :
       /\ ~oc.raised
       /\ Extract(EmptyMap, oc.out, 1).ok
       /\ Inc = RemoveFixed(Extract(EmptyMap, oc.out, 1).inc)
       /\ Now = Update([k \in StateFields |-> 0],
                       RemoveFixed(Extract(EmptyMap, oc.out, 1).out))
       /\ attrs = RemoveFixed(Extract(EmptyMap, oc.out, 1).out)
       /\ kout = oc.out
  /\ kin = Input([k \in StateFields |-> 0], Old)
  /\ Now2D = [k \in Fields2D |-> Array(Shape2D, [n \in 1..Product(Shape2D) |-> 0])]
  /\ kwargs = EmptyMap
  /\ ret = "none"
  /\ alias = {}
  /\ pc = "idle"
  /\ NSteps = 0
  /\ i = 0
  /\ ExtInc = EmptyMap
  /\ exc = "none"
  /\ kcall = "ran"
  /\ pre = Snapshot
  /\ call = [kind |-> "none", RunLength |-> 0, forced |-> TRUE, snap |-> Snapshot,
             iters0 |-> 0]
  /\ hist = [iters |-> 0, writes |-> 0, appended |-> 0, bounds |-> 0, cal |-> 0,
             calls |-> 0, calday0 |-> calday, refreshes |-> 0, kernels |-> 1,
             phases |-> <<>>, set |-> EmptyMap, built |-> <<>>, disk |-> File,
             acc |-> [k \in DOMAIN Inc |-> [base |-> Inc[k], ext |-> <<>>]]]

Constructed == InitConfig /\ InitOutput /\ InitState

Next ==
  \/ \E run \in inputs.runs, ext \in inputs.exts : StepCall(run[1], run[2], ext)
  \/ Merge
  \/ Advance
  \/ ComputeStep
  \/ Calendar
  \/ Output
  \/ Monitor
  \/ \E ForcedCompute \in BOOLEAN : ComputeCall(ForcedCompute)
  \/ WriteCall

\* One stepping scheme, no Grid or Parameter entry under a field's name, no
\* monitor
InitPlain ==
  /\ SteppingScheme = "explicit"
  /\ parameters = EmptyMap
  /\ grid = [k \in {"nlev"} |-> 1]
  /\ Shape3D = <<1, 1, 1>>
  /\ monitor = [Monitoring |-> FALSE, MonitorFreq |-> 1]

\* Increment bookkeeping: every kernel outcome, gated and ungated compute,
\* with and without a Fixed field; the calendar and the frequencies pinned.
InitInc ==
  /\ dt = 2
  /\ lod = 2
  /\ daysperyear = 2
  /\ calday = 0
  /\ OutputFreq = 2
  /\ update_frequency \in {2, 4}
  /\ ElapsedTime = 0
  /\ driver = AllOutcomes
  /\ doing_output = FALSE
  /\ inputs = [runs |-> {<<"int", 1>>, <<"int", 2>>}, exts |-> ExtIncs]
  /\ InitPlain
  /\ Constructed

SpecInc == InitInc /\ [][Next]_vars

\* Gating, run length and output trigger: every dt, update_frequency and
\* OutputFreq, integer and real RunLength, one well-behaved kernel.
InitTime ==
  /\ dt \in 1..MaxDt
  /\ lod = dt
  /\ daysperyear = 2
  /\ calday = 0
  /\ Fixed = {}
  /\ driver = OneOutcome
  /\ inputs = [runs |-> IntRuns \cup {r \in FloatRuns : r[2] <= MaxRun * dt + 1},
               exts |-> {EmptyMap}]
  /\ InitPlain
  /\ Constructed

SpecTime == InitTime /\ [][Next]_vars

\* The calendar: every dt, lod, daysperyear and starting calday.
InitCal ==
  /\ dt \in 1..MaxDt
  /\ update_frequency = dt
  /\ OutputFreq = 2
  /\ ElapsedTime = 0
  /\ doing_output = FALSE
  /\ Fixed = {}
  /\ driver = OneOutcome
  /\ inputs = [runs |-> {<<"int", n>> : n \in 1..MaxRun}, exts |-> {EmptyMap}]
  /\ InitPlain
  /\ Constructed

SpecCal == InitCal /\ [][Next]_vars

\* The order of the phases and the three gates: every dt, update frequency,
\* output frequency and monitor frequency, one kernel outcome.
InitPhase ==
  /\ dt \in 1..2
  /\ lod = dt
  /\ daysperyear = 2
  /\ calday = 0
  /\ update_frequency \in 1..3
  /\ OutputFreq \in 1..2
  /\ ElapsedTime = 0
  /\ doing_output = FALSE
  /\ Fixed = {}
  /\ SteppingScheme = "explicit"
  /\ parameters = EmptyMap
  /\ grid = [k \in {"nlev"} |-> 1]
  /\ Shape3D = <<1, 1, 1>>
  /\ monitor \in [Monitoring : BOOLEAN, MonitorFreq : 1..2]
  /\ driver = OneOutcome
  /\ inputs = [runs |-> {<<"int", 1>>, <<"int", 2>>},
               exts |-> {EmptyMap, [k \in {"T"} |-> 1]}]
  /\ Constructed

SpecPhase == InitPhase /\ [][Next]_vars

\* The accessor: every shape (nlat, nlon), every value of matching or other
\* size.
InitAccess ==
  /\ dt = 1
  /\ lod = 1
  /\ daysperyear = 2
  /\ calday = 0
  /\ update_frequency = 1
  /\ OutputFreq = 2
  /\ ElapsedTime = 0
  /\ doing_output = FALSE
  /\ Fixed = {}
  /\ SteppingScheme = "explicit"
  /\ parameters = EmptyMap
  /\ grid = [k \in {"nlev"} |-> 1]
  /\ monitor = [Monitoring |-> FALSE, MonitorFreq |-> 1]
  /\ driver = OneOutcome
  /\ inputs = [runs |-> {}, exts |-> {}]
  /\ Constructed

NextAccess ==
  \/ \E key \in AccessKeys : \E value \in Assignable(key) : SetItem(key, value)
  \/ \E key \in AccessKeys : GetItem(key)

SpecAccess == InitAccess /\ [][NextAccess]_vars

\* Input assembly: every stepping scheme, with and without a Grid or
\* Parameter entry under a State field's name, with and without a Fixed field.
InitAsm ==
  /\ dt = 1
  /\ lod = 1
  /\ daysperyear = 2
  /\ calday = 0
  /\ OutputFreq = 2
  /\ update_frequency \in {1, 2}
  /\ ElapsedTime = 0
  /\ doing_output = FALSE
  /\ Shape3D = <<1, 1, 1>>
  /\ monitor = [Monitoring |-> FALSE, MonitorFreq |-> 1]
  /\ driver = GoodOutcomes \cup {[raised |-> TRUE, out |-> KernelOutput(1, {})]}
  /\ inputs = [runs |-> {<<"int", 1>>, <<"int", 2>>},
               exts |-> {EmptyMap, [k \in {"T"} |-> 1]}]
  /\ Constructed

SpecAsm == InitAsm /\ [][Next]_vars

\* Construction and direct calls: the keyword arguments of the constructor
\* with and without each recognised key, a restart file of one or two
\* records (or none that can be read), an output file that is new, stale or
\* the restart file itself.
Opt(name, values) == {EmptyMap} \cup {[k \in {name} |-> v] : v \in values}

\* the restart file after n records, written every 2 seconds
RestartFileOf(n) ==
  [readable |-> TRUE,
   time |-> [k \in 1..n |-> Days(2 * (k - 1))],
   attributes |-> [k \in {"dt", "calday"} |-> IF k = "dt" THEN 2 ELSE 1],
   lev |-> <<5, 6>>, lat |-> <<0>>, lon |-> <<0>>,
   fields |-> [f \in {"T", "Ts"} |->
                 [k \in 1..n |-> IF f = "T" THEN <<k, k + 1>> ELSE k]]]

Unreadable == [readable |-> FALSE]

ConstructorInputs ==
  {Update(a, Update(b, Update(c, Update(d, Update(e, Update(f, g)))))) :
     a \in Opt("Fixed", {{"q"}}),
     b \in {Update(x, y) : x \in Opt("OutputFile", {"r.nc", "o.nc"}),
                           y \in Opt("OutputFields", {"given"})},
     c \in Opt("RestartFile", {"r.nc"}),
     d \in Opt("UpdateFreq", {1, 3}),
     e \in {Update(x, y) : x \in Opt("ElapsedTime", {1}), y \in Opt("dt", {3})},
     f \in Opt("lev", {<<7, 8>>}),
     g \in Opt("T", {<<3, 4>>})}

CallInputs ==
  {Update(a, Update(b, c)) :
     a \in Opt("dt", {2}), b \in Opt("ElapsedTime", {1}), c \in Opt("T", {<<3, 4>>})}

InitLife ==
  /\ kwargs \in ConstructorInputs
  /\ ~Has(kwargs, "OutputFile") => ~Has(kwargs, "OutputFields")
  /\ restart \in IF Has(kwargs, "RestartFile")
                 THEN {Unreadable} \cup {RestartFileOf(n) : n \in 1..MaxRun}
                 ELSE {Unreadable}
  /\ File \in IF Has(kwargs, "OutputFile") /\ Has(kwargs, "RestartFile")
                 /\ kwargs["OutputFile"] = kwargs["RestartFile"]
              THEN {IF restart.readable THEN restart.time ELSE <<>>}
              ELSE IF Has(kwargs, "OutputFile") THEN {<<>>, <<Days(5)>>}
              ELSE {<<>>}
  /\ SteppingScheme = "explicit"
  /\ monitor = [Monitoring |-> FALSE, MonitorFreq |-> 1]
  /\ driver = OneOutcome \cup {[raised |-> TRUE, out |-> KernelOutput(1, {})]}
  /\ inputs = [runs |-> {}, exts |-> {}]
  /\ pc = "new"
  /\ dt = 1 /\ lod = 1 /\ daysperyear = 2 /\ calday = 0 /\ update_frequency = 1
  /\ parameters = EmptyMap
  /\ Fixed = {}
  /\ grid = [k \in {"nlev"} |-> 1]
  /\ Shape3D = <<1, 1, 1>>
  /\ Now = [k \in StateFields |-> 0]
  /\ Old = [k \in StateFields |-> 0]
  /\ ElapsedTime = 0
  /\ Now2D = [k \in Fields2D |-> Array(<<1, 1>>, <<0>>)]
  /\ Inc = EmptyMap
  /\ alias = {}
  /\ attrs = EmptyMap
  /\ ret = "none"
  /\ OutputFreq = SecondsPerDay
  /\ doing_output = FALSE
  /\ appending = FALSE
  /\ output_fields = "none"
  /\ output_time_index = 0
  /\ OutputTimeIndex = 0
  /\ output_filename = "none"
  /\ all_fields = "unset"
  /\ NSteps = 0
  /\ i = 0
  /\ ExtInc = EmptyMap
  /\ exc = "none"
  /\ kcall = "none"
  /\ kin = EmptyMap
  /\ kout = EmptyMap
  /\ pre = Snapshot
  /\ call = [kind |-> "none", RunLength |-> 0, forced |-> TRUE, snap |-> Snapshot,
             iters0 |-> 0]
  /\ hist = [iters |-> 0, writes |-> 0, appended |-> 0, bounds |-> 0, cal |-> 0,
             calls |-> 0, calday0 |-> 0, refreshes |-> 0, kernels |-> 0,
             phases |-> <<>>, set |-> EmptyMap, built |-> <<>>, disk |-> File,
             acc |-> EmptyMap]

NextLife ==
  \/ InitIO
  \/ ReadRestart
  \/ InitParametersAndState
  \/ InitCompute
  \/ CreateOutputFile
  \/ InitWrite
  \/ \E ForcedCompute \in BOOLEAN : ComputeCall(ForcedCompute)
  \/ \E kw \in CallInputs : CallInit(kw)
  \/ CallCompute

SpecLife == InitLife /\ [][NextLife]_vars

\* Output records: the constructor with and without an output file, a
\* restart file and a first ElapsedTime, then write() and open() called by
\* the user of the component.
OpenNames == {"o.nc", "x.nc"}

InitOut ==
  /\ InitLife
  /\ DOMAIN kwargs \subseteq {"OutputFile", "OutputFields", "RestartFile",
                               "ElapsedTime"}

NextOut ==
  \/ InitIO
  \/ ReadRestart
  \/ InitParametersAndState
  \/ InitCompute
  \/ CreateOutputFile
  \/ InitWrite
  \/ WriteCall
  \/ \E OutputFileName \in OpenNames : Open(OutputFileName)

SpecOut == InitOut /\ [][NextOut]_vars

\* ------------------------------------------------------------------ claims
RECURSIVE Sum(_)
Sum(seq) == IF seq = <<>> THEN 0 ELSE Head(seq) + Sum(Tail(seq))

\* Inc[k] at the start of the current iteration, 0 when absent
PreInc(k) == IF k \in DOMAIN pre.Inc THEN pre.Inc[k] ELSE 0

\* the external increment the last merge read for key k
LastExt(k) == hist.acc[k].ext[Len(hist.acc[k].ext)]

\* a compute has just ended (returned or raised) and nothing ran since
AfterStepCompute == pc = "calendar" \/ (pc = "raised" /\ exc \in {"kernel", "KeyError"})
AfterDirectCompute == pc = "called" /\ call.kind = "compute"
AfterCompute == AfterStepCompute \/ AfterDirectCompute

\* an unforced compute has just ended: the one of a step iteration, or a
\* direct call with ForcedCompute false
AfterUnforcedCompute ==
  AfterStepCompute \/ (AfterDirectCompute /\ ~call.forced)

KernelInvoked == kcall \in {"ran", "failed"}

\* C1 (as claimed): in an unforced compute the kernel is invoked iff
\* floor(t/f) # floor((t-dt)/f), also when t < dt.
C1_GateIsFloor ==
  AfterUnforcedCompute =>
    (KernelInvoked <=>
       FloorDiv(ElapsedTime, update_frequency)
         # FloorDiv(ElapsedTime - dt, update_frequency))

\* C1 (amended): in an unforced compute the kernel is invoked iff
\* int(t/f) # int((t-dt)/f) with int truncating toward zero; that is the
\* floor test when t >= dt, and for t < dt the kernel is invoked iff t >= f
\* or dt - t >= f.
C1_GateIsTrunc ==
  AfterUnforcedCompute =>
    /\ KernelInvoked <=>
         TruncDiv(ElapsedTime, update_frequency)
           # TruncDiv(ElapsedTime - dt, update_frequency)
    /\ ElapsedTime >= dt =>
         (KernelInvoked <=>
            FloorDiv(ElapsedTime, update_frequency)
              # FloorDiv(ElapsedTime - dt, update_frequency))
    /\ ElapsedTime < dt =>
         (KernelInvoked <=>
            (ElapsedTime >= update_frequency \/ dt - ElapsedTime >= update_frequency))

C1_Witness ==
  /\ AfterDirectCompute
  /\ ~call.forced
  /\ ElapsedTime < dt
  /\ dt < update_frequency
  /\ kcall = "skipped"

\* C2: the merge of ExternalInc is additive. Right after the merge, for each
\* key k of ExternalInc, Inc[k] is its value at the start of the iteration
\* plus the external increment (the increment alone when k was absent); and
\* at all times Inc[k] is the last kernel value for k plus every external
\* increment merged since, so two merges of d with no kernel value for the
\* field leave d + d.
C2_MergeAdditive ==
  /\ pc = "advance" =>
       \A k \in DOMAIN ExtInc : Inc[k] = PreInc(k) + LastExt(k)
  /\ \A k \in DOMAIN Inc : Inc[k] = hist.acc[k].base + Sum(hist.acc[k].ext)

C2_Witness ==
  /\ pc = "advance"
  /\ \E k \in DOMAIN ExtInc :
       /\ hist.acc[k].base = 0
       /\ hist.acc[k].ext = <<1, 1>>
       /\ Inc[k] = 2

\* C3 (as claimed): after any compute that returned, forced or not, gate
\* crossed or not, Inc holds no Fixed field.
C3_NoFixedAfterCompute ==
  (AfterCompute /\ exc = "none") => DOMAIN Inc \cap Fixed = {}

\* C4 (as claimed): in every reachable state the keys of Inc are Prognostic
\* and not Fixed.
C4_IncKeysPrognosticNotFixed ==
  DOMAIN Inc \subseteq PrognosticSet \ Fixed

\* C5: when the kernel ran in compute, Inc[p] of every non-Fixed Prognostic p
\* is exactly the kernel's p-increment, whatever Inc[p] held before.
C5_KernelOverwrites ==
  (AfterCompute /\ kcall = "ran") =>
     \A p \in PrognosticSet \ Fixed : p \in DOMAIN Inc /\ Inc[p] = kout[IncKey(p)]

C5_Witness ==
  /\ pc = "calendar"
  /\ kcall = "ran"
  /\ \E p \in (PrognosticSet \ Fixed) \cap DOMAIN ExtInc :
       /\ Inc[p] = kout[IncKey(p)]
       /\ Inc[p] # PreInc(p) + ExtInc[p]

\* Now[d] before the compute that has just ended (advance leaves a
\* diagnostic alone)
DiagBefore(d) == IF AfterDirectCompute THEN call.snap.Now[d] ELSE pre.Now[d]

\* C6: when the kernel returned an output that lacks the increment entry of
\* some declared Prognostic field, Fixed or not, the compute ends in an error
\* and no diagnostic of that call reaches State.Now.
C6_MissingIncrementFails ==
  (/\ AfterCompute
   /\ kcall \in {"ran", "failed"}
   /\ exc # "kernel"
   /\ \E p \in PrognosticSet : IncKey(p) \notin DOMAIN kout)
  => /\ exc = "KeyError"
     /\ \A d \in Diagnostic : Now[d] = DiagBefore(d)

C6_Witness ==
  /\ AfterStepCompute
  /\ exc = "KeyError"
  /\ \E p \in Fixed \cap PrognosticSet : IncKey(p) \notin DOMAIN kout
  /\ \E d \in Diagnostic : d \in DOMAIN kout /\ kout[d] # Now[d]

\* C7 (as claimed): when the kernel call of a step iteration fails, State,
\* ElapsedTime, Inc, calday and the output index are those from before the
\* iteration.
C7_NoEffectBeforeKernel ==
  (pc = "raised" /\ exc = "kernel") => Snapshot = pre

\* C7 (amended): when the kernel call of a step iteration fails, calday, the
\* output index and the output file are those from before the iteration,
\* while ExternalInc has been merged into Inc and State has been advanced
\* (ElapsedTime is dt later, Old holds the previous Now).
C7_OnlyCalendarAndOutputAfterKernel ==
  (pc = "raised" /\ exc = "kernel") =>
     /\ calday = pre.calday
     /\ output_time_index = pre.output_time_index
     /\ File = pre.File
     /\ ElapsedTime = pre.ElapsedTime + dt
     /\ \A p \in PrognosticSet \ Fixed : Old[p] = pre.Now[p]
     /\ DOMAIN Inc = DOMAIN pre.Inc \cup DOMAIN ExtInc
     /\ \A k \in DOMAIN ExtInc : Inc[k] = PreInc(k) + LastExt(k)
     /\ \A k \in DOMAIN Inc \ DOMAIN ExtInc : Inc[k] = pre.Inc[k]

C7_Witness ==
  /\ pc = "raised"
  /\ exc = "kernel"
  /\ DOMAIN ExtInc # {}
  /\ ElapsedTime = pre.ElapsedTime + dt
  /\ Inc # pre.Inc

\* the iterations a call step(RunLength) is to make: RunLength itself, or
\* RunLength/dt truncated when RunLength is a duration
Expected(c) ==
  IF c.kind = "int" THEN c.RunLength
  ELSE IF c.RunLength >= 0 THEN c.RunLength \div dt ELSE 0 - ((0 - c.RunLength) \div dt)

\* C8: a call step(RunLength) with RunLength >= 0 that returns has made
\* exactly RunLength iterations (integer) or trunc(RunLength/dt) iterations
\* (duration), ElapsedTime has grown by that number times dt, and with zero
\* iterations nothing has changed.
C8_RunLengthIterations ==
  (pc = "returned" /\ call.RunLength >= 0) =>
     /\ hist.iters - call.iters0 = Expected(call)
     /\ ElapsedTime = call.snap.ElapsedTime + Expected(call) * dt
     /\ Expected(call) = 0 => Snapshot = call.snap

C8_Witness ==
  /\ pc = "returned"
  /\ call.kind = "float"
  /\ call.RunLength % dt # 0
  /\ hist.iters - call.iters0 = 2
  /\ ElapsedTime = call.snap.ElapsedTime + 2 * dt

\* a step iteration has passed its output trigger
AfterOutput ==
  \/ pc = "returned"
  \/ pc = "merge" /\ i >= 1
  \/ pc = "raised" /\ exc \in {"AttributeError", "TypeError"}

\* C9 (as claimed): over a run of step iterations writeOutput has been
\* called once for every multiple of OutputFreq that ElapsedTime has crossed,
\* and each call has appended one time record to the output file.
C9_OneWritePerBoundary ==
  AfterOutput =>
     /\ hist.writes = hist.bounds
     /\ doing_output => hist.appended = hist.writes

\* days of one iteration
CalInc == dt \div lod

\* C10 (as claimed): after every iteration calday is
\* (start + k*dt/lod) mod daysperyear.
C10_CaldayIsModulo ==
  hist.cal >= 1 =>
     calday = (hist.calday0 + hist.cal * CalInc) % daysperyear

\* C10 (amended): after every iteration calday is congruent to
\* start + k*dt/lod modulo daysperyear; when dt/lod <= daysperyear it lies in
\* (0, daysperyear], so it is (start + k*dt/lod) mod daysperyear except that a
\* multiple of daysperyear is held as daysperyear, not as 0.
C10_CaldayCongruent ==
  hist.cal >= 1 =>
     /\ calday % daysperyear = (hist.calday0 + hist.cal * CalInc) % daysperyear
     /\ CalInc <= daysperyear =>
          /\ calday > 0
          /\ calday <= daysperyear
          /\ calday = ((hist.calday0 + hist.cal * CalInc - 1) % daysperyear) + 1

C10_Witness ==
  /\ hist.cal >= 2
  /\ hist.cal * CalInc = daysperyear
  /\ hist.calday0 = 0
  /\ calday = daysperyear

\* the value of State field f in State.Now when the compute that has just
\* ended assembled its input (compute assigns the diagnostics only)
NowBefore(f) == IF f \in Diagnostic THEN DiagBefore(f) ELSE Now[f]

\* C11: under the implicit scheme every key of the kernel input that is a key
\* of State.Old carries the State.Old value, whatever State.Now, Grid and
\* Parameters hold under it, in the dictionary and in the positional
\* arguments; in a step iteration that is the level State.Now held before
\* the advancement.
C11_ImplicitInputIsOld ==
  (AfterCompute /\ KernelInvoked /\ SteppingScheme = "implicit") =>
     /\ \A k \in DOMAIN kin \cap DOMAIN Old :
          kin[k] = [from |-> "Old", value |-> Old[k]]
     /\ \A n \in 1..Len(ToExtension) :
          ToExtension[n] \in DOMAIN Old =>
            Args(kin)[n] = [from |-> "Old", value |-> Old[ToExtension[n]]]
     /\ AfterStepCompute =>
          \A p \in PrognosticSet \ Fixed : kin[p].value = pre.Now[p]

C11_Witness ==
  /\ SteppingScheme = "implicit"
  /\ pc = "calendar"
  /\ kcall = "ran"
  /\ "D" \in DOMAIN grid
  /\ Old["T"] # Now["T"]
  /\ kin["T"].value = Old["T"]
  /\ kin["D"].from = "Old"

\* C12: under the semi-implicit scheme the kernel input holds, for every
\* Prognostic field p, Fixed or not, State.Now[p] under p and State.Old[p]
\* under p+'old', and the two differ whenever State.Old[p] # State.Now[p].
C12_SemiImplicitBothLevels ==
  (AfterCompute /\ KernelInvoked /\ SteppingScheme = "semi-implicit") =>
     \A p \in PrognosticSet :
        /\ p \in DOMAIN kin
        /\ OldKey(p) \in DOMAIN kin
        /\ kin[p] = [from |-> "Now", value |-> Now[p]]
        /\ kin[OldKey(p)] = [from |-> "Old", value |-> Old[p]]
        /\ Old[p] # Now[p] => kin[p].value # kin[OldKey(p)].value
        /\ \E n, m \in 1..Len(ToExtension) :
             /\ ToExtension[n] = p
             /\ ToExtension[m] = OldKey(p)
             /\ Args(kin)[n].value = Now[p]
             /\ Args(kin)[m].value = Old[p]

C12_Witness ==
  /\ SteppingScheme = "semi-implicit"
  /\ pc = "calendar"
  /\ kcall = "ran"
  /\ Fixed = {"q"}
  /\ Old["T"] # Now["T"]
  /\ kin["T"].value = Now["T"]
  /\ kin[OldKey("T")].value = Old["T"]
  /\ OldKey("q") \in DOMAIN kin

\* C13: under the explicit scheme the kernel input for every State field
\* whose name is no Grid or Parameter key is State.Now[field], and no value
\* of State.Old is in the input dictionary or in the positional arguments.
C13_ExplicitInputIsNow ==
  (AfterCompute /\ KernelInvoked /\ SteppingScheme = "explicit") =>
     /\ \A f \in StateFields \ (DOMAIN grid \cup DOMAIN ParametersValue) :
          kin[f] = [from |-> "Now", value |-> NowBefore(f)]
     /\ \A k \in DOMAIN kin : kin[k].from # "Old"
     /\ \A n \in 1..Len(ToExtension) : Args(kin)[n].from # "Old"

C13_Witness ==
  /\ SteppingScheme = "explicit"
  /\ pc = "calendar"
  /\ kcall = "ran"
  /\ "D" \in DOMAIN grid
  /\ kin["D"].from = "Grid"
  /\ Old["T"] # Now["T"]
  /\ kin["T"].value = Now["T"]

\* the phases of one iteration, in the order of the loop body
PhaseOrder == <<"merge", "advance", "compute", "calendar", "output", "monitor">>

\* a step iteration has run to its end
IterationDone ==
  /\ call.kind \in {"int", "float"}
  /\ \/ pc = "returned" /\ NSteps > 0
     \/ pc = "merge" /\ i >= 1

\* ElapsedTime at the start of the current iteration
IterationStart == hist.phases[1].time

\* the external increment the current step call merges into key k
ExtOf(k) == IF k \in DOMAIN ExtInc THEN ExtInc[k] ELSE 0

C17_GatedComputeIsNoOp ==
  (AfterUnforcedCompute /\ ~Crossed(ElapsedTime, dt, update_frequency)) =>
     /\ kcall = "skipped"
     /\ exc = "none"
     /\ AfterDirectCompute => Snapshot = call.snap
     /\ AfterStepCompute =>
          /\ attrs = pre.attrs
          /\ \A d \in Diagnostic : Now[d] = pre.Now[d]
          /\ DOMAIN Inc = DOMAIN pre.Inc \cup DOMAIN ExtInc
          /\ \A k \in DOMAIN Inc :
               Inc[k] = PreInc(k) + (IF k \in DOMAIN ExtInc THEN LastExt(k) ELSE 0)

C17_Witness ==
  /\ AfterDirectCompute
  /\ ~call.forced
  /\ kcall = "skipped"
  /\ hist.iters >= 1
  /\ hist.acc["T"].ext # <<>>
  /\ Snapshot = call.snap

\* C18 (as claimed): with update_frequency > dt and the same ExternalInc E
\* merged in every iteration since the kernel last ran, the Inc that a state
\* advancement is about to consume holds, for each Prognostic key k of E that
\* is not Fixed, the last kernel increment plus one copy of E[k].
C18_ExternalIncDoesNotCompound ==
  (/\ pc = "advance"
   /\ update_frequency > dt
   /\ \A k \in DOMAIN ExtInc :
        \A n \in 1..Len(hist.acc[k].ext) : hist.acc[k].ext[n] = ExtInc[k])
  => \A k \in DOMAIN ExtInc \cap (PrognosticSet \ Fixed) :
        Inc[k] = hist.acc[k].base + ExtInc[k]

\* component[k] has just returned for a 2D field k that component[k] = v
\* assigned before
GotAssigned2D ==
  /\ pc = "called"
  /\ call.kind = "getitem"
  /\ exc = "none"
  /\ call.key \in Fields2D
  /\ call.key \in DOMAIN hist.set

\* C14 (as claimed): component[k] = v; component[k] returns v with shape
\* (nlat, nlon) and every element preserved, also when nlat = 1 or nlon = 1.
C14_RoundTripShape2D ==
  GotAssigned2D => ret = Array(Shape2D, hist.set[call.key].data)

\* C14 (amended): component[k] = v; component[k] returns the elements of v in
\* their order, with the shape (nlat, nlon) less its dimensions of length 1:
\* (nlat, nlon) itself exactly when nlat > 1 and nlon > 1.
C14_RoundTripSqueezed ==
  GotAssigned2D =>
     /\ ret.data = hist.set[call.key].data
     /\ ret.shape = SelectSeq(Shape2D, IsNotOne)
     /\ ret.shape = Shape2D <=> (Shape3D[2] > 1 /\ Shape3D[3] > 1)

C14_Witness ==
  /\ GotAssigned2D
  /\ Shape2D = <<1, 2>>
  /\ hist.set[call.key] = Array(<<2>>, <<0, 1>>)
  /\ ret = Array(<<2>>, <<0, 1>>)

\* readRestart has just returned to __init__
AfterReadRestart == pc = "init-state" /\ call.kind = "readRestart"

\* what the restart file provides, key by key
RestartDerived ==
  Update([k \in {"ElapsedTime"} |-> Seconds(restart.time[Len(restart.time)])],
  Update(restart.attributes,
  Update([k \in {"lev", "lat", "lon"} |->
            IF k = "lev" THEN Reverse(restart.lev)
            ELSE IF k = "lat" THEN restart.lat ELSE restart.lon],
         LastRecords(restart))))

\* C15: in the input set readRestart returns, every key the caller supplied
\* keeps the caller's value, and every other key holds the value the restart
\* file provides for it.
C15_CallerValuesKept ==
  AfterReadRestart =>
    /\ \A k \in DOMAIN call.kwargs :
         k \in DOMAIN kwargs /\ kwargs[k] = call.kwargs[k]
    /\ \A k \in DOMAIN kwargs \ DOMAIN call.kwargs :
         k \in DOMAIN RestartDerived /\ kwargs[k] = RestartDerived[k]

\* the caller gave ElapsedTime, dt and T, each different from the file's, and
\* no lev: the three are kept and lev comes from the file
C15_Witness ==
  /\ AfterReadRestart
  /\ {"ElapsedTime", "dt", "T"} \subseteq DOMAIN call.kwargs
  /\ "lev" \notin DOMAIN call.kwargs
  /\ call.kwargs["ElapsedTime"] # RestartDerived["ElapsedTime"]
  /\ call.kwargs["dt"] # RestartDerived["dt"]
  /\ call.kwargs["T"] # RestartDerived["T"]
  /\ kwargs["lev"] = Reverse(restart.lev)
  /\ kwargs["calday"] = restart.attributes["calday"]

\* the phases of __init__ that have run, in order
Before(a, b) ==
  \E m, n \in 1..Len(hist.built) :
     m < n /\ hist.built[m] = a /\ hist.built[n] = b

\* C19: a compute called with ForcedCompute true invokes the kernel whatever
\* ElapsedTime, dt and update_frequency are; the constructor invokes the
\* kernel exactly once, when the output file is still as it was found and no
\* record has been written, and creates the file and writes the initial
\* record after it.
C19_ForcedComputeAtConstruction ==
  /\ (AfterDirectCompute /\ call.forced) => KernelInvoked
  /\ pc = "init-create" =>
       /\ KernelInvoked
       /\ hist.kernels = 1
       /\ hist.built[Len(hist.built)] = "compute"
       /\ File = hist.disk
  /\ pc = "init-write" => hist.kernels = 1 /\ Before("compute", "create")
  /\ (pc = "idle" /\ hist.calls = 0) =>
       /\ hist.kernels = 1
       /\ Before("compute", "create")
       /\ Before("create", "write")

\* a component constructed with update_frequency > dt at ElapsedTime 0, whose
\* stale output file was replaced and now holds the initial record; a forced
\* compute called on it later
C19_Witness ==
  /\ AfterDirectCompute
  /\ call.forced
  /\ update_frequency > dt
  /\ ElapsedTime = 0
  /\ hist.disk # <<>>
  /\ File = <<Days(0)>>
  /\ hist.kernels = 2

\* C20 (as claimed): the compute that ends __call__ invokes the kernel, also
\* when update_frequency is greater than dt and ElapsedTime is 0.
C20_CallInvokesKernel ==
  (pc = "called" /\ call.kind = "call") => KernelInvoked

\* a step call is under way or has ended, and nothing else was called since
InOrAfterStep ==
  /\ call.kind \in {"int", "float"}
  /\ pc \in {"merge", "advance", "compute", "calendar", "output", "monitor",
            "returned", "raised"}

\* C21 (as claimed): during and after step the caller's ExternalInc map
\* holds, key by key, the values it held when step was called.
C21_ExternalIncUnchanged ==
  InOrAfterStep => ExtInc = call.ext

\* a writeOutput called through write() has just returned
AfterWrite ==
  pc = "called" /\ call.kind = "write" /\ exc = "none" /\ doing_output

\* open() has just returned, having made a file under a new name
AfterOpenNew ==
  pc = "called" /\ call.kind = "open" /\ exc = "none" /\ call.name # call.was

\* the index has grown by one and the records the file held are as they were
C22_IndexGrowsByOne ==
  AfterWrite =>
    /\ output_time_index = call.snap.output_time_index + 1
    /\ Len(File) >= Len(call.snap.File)
    /\ \A n \in 1..Len(call.snap.File) : File[n] = call.snap.File[n]

\* output file = restart file: after createOutputFile the file is as it was
\* found, and the index of the next record is the number of its records
C22_AppendAfterRestart ==
  (pc \in {"init-write", "idle"} /\ appending) =>
    /\ File = hist.disk
    /\ output_time_index = Len(hist.disk)

\* after open() on a new name the next record goes to index 0
C22_OpenStartsAtZero ==
  AfterOpenNew => output_time_index = 0

\* C22 (as claimed): every writeOutput moves the record index up by one and
\* leaves the records already in the file as they were; when the output file
\* is the restart file, createOutputFile leaves it untouched and the first
\* new record goes to the index that equals the number of records in it;
\* after open() on a new file name the next record is written at index 0.
C22_RecordIndex ==
  /\ C22_IndexGrowsByOne
  /\ C22_AppendAfterRestart
  /\ C22_OpenStartsAtZero

====
